---------------------------- MODULE Spec2Model ----------------------------
(***************************************************************************)
(* Model of the HALO session engine of titan-core (routes/core_v1.py):     *)
(* the registry HaloEngine.sessions, the per-session accumulator           *)
(* HaloSessionState, and the three engine operations start, record_event   *)
(* and end.                                                                *)
(*                                                                         *)
(* Four specifications share the state:                                    *)
(*   Spec        - one caller issues whole engine calls one after another  *)
(*   SpecThreads - two threads call the engine; every read and write of    *)
(*                 the shared registry and of an accumulator is a step of  *)
(*                 its own, as the engine takes no lock                    *)
(*   SpecLoop    - the threads are tasks of one event loop, which leaves   *)
(*                 a task only where it awaits                             *)
(*   SpecHttp    - the handlers of POST /v1/start, /v1/event and /v1/end   *)
(*                 validate a payload and call the engine, one at a time   *)
(***************************************************************************)
EXTENDS Integers, Sequences, FiniteSets

\* ---------------------------------------------------------------- bounds
\* Spec: record_event calls issued in one behaviour
MaxEvents == 2
\* Spec: signal values stored in one behaviour, over all sessions
MaxValues == 3
\* SpecThreads: engine calls issued in one behaviour
MaxCalls == 2

SessionIds == {"s1", "s2"}
\* sample signal values: validated floats (finite, >= 0)
SignalValues == {0, 1}

\* Python's None, and a present optional value
None == <<>>
Some(v) == <<v>>
Signals == {None} \cup {Some(v) : v \in SignalValues}

\* SpecThreads: the threads calling the engine
Threads == {1, 2}

VARIABLES
    sessions,   \* HaloEngine.sessions: session_id -> reference into heap, 0 = key absent
    heap,       \* the HaloSessionState objects ever constructed, by reference
    frame,      \* SpecThreads: each thread's call in progress (position and locals)
    ncalls,     \* SpecThreads: engine calls issued so far
    referenced, \* the session_ids passed to start or record_event so far
    hist,       \* per session_id, the record_event calls completed: arguments and returned summary
    last        \* the engine call completed last: operation, arguments and returned value

vars == <<sessions, heap, frame, ncalls, referenced, hist, last>>

\* ------------------------------------------------------ HaloSessionState
\* an accumulator constructed with its creation counted as an event
HaloSessionState_counted(session_id) ==
    [session_id |-> session_id, event_count |-> 1, friction_values |-> <<>>,
     hesitation_values |-> <<>>, pace_values |-> <<>>]

\* a freshly constructed accumulator
HaloSessionState(session_id) ==
    [session_id |-> session_id, event_count |-> 0, friction_values |-> <<>>,
     hesitation_values |-> <<>>, pace_values |-> <<>>]

\* self.event_count += 1, as the store of a previously loaded count
StoreCount(st, loaded) == [st EXCEPT !.event_count = loaded + 1]

\* if friction is not None: self.friction_values.append(friction)
AppendFriction(st, friction) ==
    IF friction # None THEN [st EXCEPT !.friction_values = Append(@, friction[1])] ELSE st

\* an append that stores 0 for an absent hesitation
AppendHesitation_zero_filling(st, hesitation) ==
    [st EXCEPT !.hesitation_values =
                   Append(@, IF hesitation # None THEN hesitation[1] ELSE 0)]

AppendHesitation(st, hesitation) ==
    IF hesitation # None THEN [st EXCEPT !.hesitation_values = Append(@, hesitation[1])] ELSE st

AppendPace(st, pace) ==
    IF pace # None THEN [st EXCEPT !.pace_values = Append(@, pace[1])] ELSE st

\* a record that counts an event only when it carries a signal
record_counting_signals(st, friction, hesitation, pace) ==
    AppendPace(AppendHesitation(AppendFriction(
        IF friction = None /\ hesitation = None /\ pace = None
        THEN st ELSE StoreCount(st, st.event_count), friction), hesitation), pace)

record(st, friction, hesitation, pace) ==
    AppendPace(AppendHesitation(AppendFriction(StoreCount(st, st.event_count), friction),
                                hesitation), pace)

RECURSIVE Sum(_)
Sum(seq) == IF seq = <<>> THEN 0 ELSE seq[1] + Sum(Tail(seq))

RECURSIVE GCD(_, _)
GCD(a, b) == IF b = 0 THEN a ELSE GCD(b, a % b)

RECURSIVE WeightedSum(_)
\* the values of seq, each weighted by its position
WeightedSum(seq) ==
    IF seq = <<>> THEN 0
    ELSE Len(seq) * seq[Len(seq)] + WeightedSum(SubSeq(seq, 1, Len(seq) - 1))

\* a mean that weighs a value by its position, later values more
mean_recency_weighted(data) ==
    LET total == WeightedSum(data)
        n == (Len(data) * (Len(data) + 1)) \div 2
        g == GCD(total, n)
    IN  <<total \div g, n \div g>>

\* a mean over a window of the latest value alone
mean_windowed(data) == <<data[Len(data)], 1>>

\* statistics.mean: the exact sum over the number of values, as a fraction in lowest terms
mean(data) ==
    LET total == Sum(data)
        n == Len(data)
        g == GCD(total, n)
    IN  <<total \div g, n \div g>>

\* an average that reports 0 for an empty sequence
AverageOrZero(values) == IF values # <<>> THEN mean(values) ELSE <<0, 1>>

\* statistics.mean(values) if values else None
Average(values) == IF values # <<>> THEN mean(values) ELSE None

summary(st) ==
    [events_count |-> st.event_count,
     average_friction |-> Average(st.friction_values),
     average_hesitation |-> Average(st.hesitation_values),
     average_pace |-> Average(st.pace_values)]

\* ------------------------------------------------------------ HaloEngine
\* session_id in self.sessions
Contains(sess, session_id) == sess[session_id] # 0

\* an installation that rebuilds the registry around the new key alone
Install_evicting(sess, hp, session_id) ==
    [sessions |-> [s \in DOMAIN sess |-> IF s = session_id THEN Len(hp) + 1 ELSE 0],
     heap |-> Append(hp, HaloSessionState(session_id))]

\* self.sessions[session_id] = HaloSessionState(session_id=session_id)
Install(sess, hp, session_id) ==
    [sessions |-> [sess EXCEPT ![session_id] = Len(hp) + 1],
     heap |-> Append(hp, HaloSessionState(session_id))]

\* a start that installs a fresh accumulator whether or not the key exists
start_resetting(sess, hp, session_id) == Install(sess, hp, session_id)

start(sess, hp, session_id) ==
    IF ~Contains(sess, session_id)
    THEN Install(sess, hp, session_id)
    ELSE [sessions |-> sess, heap |-> hp]

\* a record_event whose implicit creation swallows the event that caused it
record_event_creating_only(sess, hp, session_id, friction, hesitation, pace) ==
    IF ~Contains(sess, session_id)
    THEN LET e1 == start(sess, hp, session_id)
         IN  [sessions |-> e1.sessions, heap |-> e1.heap,
              ret |-> summary(e1.heap[e1.sessions[session_id]])]
    ELSE LET state == sess[session_id]
             hp2 == [hp EXCEPT ![state] = record(@, friction, hesitation, pace)]
         IN  [sessions |-> sess, heap |-> hp2, ret |-> summary(hp2[state])]

\* a record_event that builds its summary before it records the event
record_event_summarising_first(sess, hp, session_id, friction, hesitation, pace) ==
    LET e1 == IF ~Contains(sess, session_id)
              THEN start(sess, hp, session_id)
              ELSE [sessions |-> sess, heap |-> hp]
        state == e1.sessions[session_id]
        hp2 == [e1.heap EXCEPT ![state] = record(@, friction, hesitation, pace)]
    IN  [sessions |-> e1.sessions, heap |-> hp2, ret |-> summary(e1.heap[state])]

record_event(sess, hp, session_id, friction, hesitation, pace) ==
    LET e1 == IF ~Contains(sess, session_id)
              THEN start(sess, hp, session_id)
              ELSE [sessions |-> sess, heap |-> hp]
        state == e1.sessions[session_id]
        hp2 == [e1.heap EXCEPT ![state] = record(@, friction, hesitation, pace)]
    IN  [sessions |-> e1.sessions, heap |-> hp2, ret |-> summary(hp2[state])]

\* an end over a registry that creates a missing key on lookup (a defaultdict)
end_creating(sess, hp, session_id) ==
    LET e1 == start(sess, hp, session_id)
    IN  [sessions |-> e1.sessions, heap |-> e1.heap,
         ret |-> Some(summary(e1.heap[e1.sessions[session_id]]))]

\* an end that removes the session it summarises
end_removing(sess, hp, session_id) ==
    [sessions |-> [sess EXCEPT ![session_id] = 0], heap |-> hp,
     ret |-> IF ~Contains(sess, session_id)
             THEN None
             ELSE Some(summary(hp[sess[session_id]]))]

\* an end that closes the session: it leaves a fresh accumulator behind the summary
end_closing(sess, hp, session_id) ==
    IF ~Contains(sess, session_id)
    THEN [sessions |-> sess, heap |-> hp, ret |-> None]
    ELSE [sessions |-> sess,
          heap |-> [hp EXCEPT ![sess[session_id]] = HaloSessionState(session_id)],
          ret |-> Some(summary(hp[sess[session_id]]))]

\* return None for an unknown session, else its summary; the registry as end leaves it
end(sess, hp, session_id) ==
    [sessions |-> sess, heap |-> hp,
     ret |-> IF ~Contains(sess, session_id)
             THEN None
             ELSE Some(summary(hp[sess[session_id]]))]

\* ----------------------------------------------------------------- state
\* the summary dict of a call before its entries are evaluated
NoSummary ==
    [events_count |-> 0, average_friction |-> None, average_hesitation |-> None,
     average_pace |-> None]

\* a thread outside any engine call
IdleFrame ==
    [pc |-> "idle", op |-> "none", session_id |-> "", friction |-> None,
     hesitation |-> None, pace |-> None, state |-> 0, loaded |-> 0, ret |-> NoSummary]

NoCall == [op |-> "none", session_id |-> "", friction |-> None, hesitation |-> None,
           pace |-> None, ret |-> None, after_end |-> FALSE]

\* a completed call; after_end tells a record_event that completes right after an end
\* which returned the summary of the same session
Completed(op, session_id, friction, hesitation, pace, ret) ==
    [op |-> op, session_id |-> session_id, friction |-> friction,
     hesitation |-> hesitation, pace |-> pace, ret |-> ret,
     after_end |-> /\ op = "record_event"
                   /\ last.op = "end"
                   /\ last.session_id = session_id
                   /\ last.ret # None]

Event(friction, hesitation, pace, ret) ==
    [friction |-> friction, hesitation |-> hesitation, pace |-> pace, ret |-> ret]

Init ==
    /\ sessions = [s \in SessionIds |-> 0]
    /\ heap = <<>>
    /\ frame = [t \in Threads |-> IdleFrame]
    /\ ncalls = 0
    /\ referenced = {}
    /\ hist = [s \in SessionIds |-> <<>>]
    /\ last = NoCall

\* the number of signals of a call that are present
Present(friction, hesitation, pace) ==
    (IF friction # None THEN 1 ELSE 0) + (IF hesitation # None THEN 1 ELSE 0)
        + (IF pace # None THEN 1 ELSE 0)

RECURSIVE PresentIn(_)
\* the signals present over a sequence of recorded events
PresentIn(events) ==
    IF events = <<>> THEN 0
    ELSE Present(events[1].friction, events[1].hesitation, events[1].pace)
             + PresentIn(Tail(events))

RECURSIVE Recorded(_), ValuesRecorded(_)
\* record_event calls completed on the sessions of S, and the signals they carried
Recorded(S) ==
    IF S = {} THEN 0
    ELSE LET s == CHOOSE x \in S : TRUE IN Len(hist[s]) + Recorded(S \ {s})
ValuesRecorded(S) ==
    IF S = {} THEN 0
    ELSE LET s == CHOOSE x \in S : TRUE IN PresentIn(hist[s]) + ValuesRecorded(S \ {s})

\* -------------------------------------------- Spec: one call after another
CallStart(session_id) ==
    LET e == start(sessions, heap, session_id) IN
    /\ sessions' = e.sessions
    /\ heap' = e.heap
    /\ last' = Completed("start", session_id, None, None, None, None)
    /\ referenced' = referenced \cup {session_id}
    /\ UNCHANGED <<frame, ncalls, hist>>

CallRecordEvent(session_id, friction, hesitation, pace) ==
    LET e == record_event(sessions, heap, session_id, friction, hesitation, pace) IN
    /\ Recorded(SessionIds) < MaxEvents
    /\ ValuesRecorded(SessionIds) + Present(friction, hesitation, pace) <= MaxValues
    /\ sessions' = e.sessions
    /\ heap' = e.heap
    /\ hist' = [hist EXCEPT ![session_id] =
                   Append(@, Event(friction, hesitation, pace, e.ret))]
    /\ last' = Completed("record_event", session_id, friction, hesitation, pace,
                         Some(e.ret))
    /\ referenced' = referenced \cup {session_id}
    /\ UNCHANGED <<frame, ncalls>>

CallEnd(session_id) ==
    LET e == end(sessions, heap, session_id) IN
    /\ sessions' = e.sessions
    /\ heap' = e.heap
    /\ last' = Completed("end", session_id, None, None, None, e.ret)
    /\ UNCHANGED <<frame, ncalls, referenced, hist>>

Next ==
    \/ \E s \in SessionIds : CallStart(s)
    \/ \E s \in SessionIds, f \in Signals, h \in Signals, p \in Signals :
           CallRecordEvent(s, f, h, p)
    \/ \E s \in SessionIds : CallEnd(s)

Spec == Init /\ [][Next]_vars

\* ------------------------------- SpecThreads: unsynchronised engine calls
\* Every step holds one access to the registry or to an accumulator; the
\* tests and moves on a call's own locals ride with the access after them.

\* the events thread t supplies, its signals carrying its own value so that values
\* tell calls apart: no signal, friction alone, all three
ThreadEvents(t) ==
    {<<None, None, None>>, <<Some(t), None, None>>, <<Some(t), Some(t), Some(t)>>}

Enter(t, op, session_id, friction, hesitation, pace, pc) ==
    [IdleFrame EXCEPT !.pc = pc, !.op = op, !.session_id = session_id,
                      !.friction = friction, !.hesitation = hesitation, !.pace = pace]

\* the call of thread t returns ret
Return(t, ret) ==
    LET fr == frame[t] IN
    /\ frame' = [frame EXCEPT ![t] = IdleFrame]
    /\ last' = Completed(fr.op, fr.session_id, fr.friction, fr.hesitation, fr.pace, ret)
    /\ hist' = IF fr.op = "record_event"
               THEN [hist EXCEPT ![fr.session_id] =
                        Append(@, Event(fr.friction, fr.hesitation, fr.pace, ret[1]))]
               ELSE hist

Goto(t, pc) == frame' = [frame EXCEPT ![t].pc = pc]

\* the statement of record that follows the one at pc, for the signals supplied
AfterRecord(fr, pc) ==
    IF pc = "record_111" /\ fr.friction # None THEN "record_114"
    ELSE IF pc \in {"record_111", "record_114"} /\ fr.hesitation # None THEN "record_116"
    ELSE IF pc \in {"record_111", "record_114", "record_116"} /\ fr.pace # None
         THEN "record_118"
    ELSE "summary_122"

\* start, line 134, as the engine call of thread t
start_134(t, session_id) ==
    /\ frame[t].pc = "idle"
    /\ ncalls < MaxCalls
    /\ ncalls' = ncalls + 1
    /\ IF Contains(sessions, session_id)
       THEN /\ frame' = frame
            /\ last' = Completed("start", session_id, None, None, None, None)
       ELSE /\ frame' = [frame EXCEPT ![t] =
                            Enter(t, "start", session_id, None, None, None, "start_135")]
            /\ last' = last
    /\ referenced' = referenced \cup {session_id}
    /\ UNCHANGED <<sessions, heap, hist>>

\* a nested start whose membership test is inverted
start_134_nested_inverted(t) ==
    /\ frame[t].pc = "start_134"
    /\ IF Contains(sessions, frame[t].session_id)
       THEN Goto(t, "start_135")
       ELSE Goto(t, "record_event_141")
    /\ UNCHANGED <<sessions, heap, ncalls, referenced, hist, last>>

\* start, line 134, called from record_event line 139
start_134_nested(t) ==
    /\ frame[t].pc = "start_134"
    /\ IF Contains(sessions, frame[t].session_id)
       THEN Goto(t, "record_event_141")
       ELSE Goto(t, "start_135")
    /\ UNCHANGED <<sessions, heap, ncalls, referenced, hist, last>>

start_135(t) ==
    LET fr == frame[t]
        e == Install(sessions, heap, fr.session_id)
    IN  /\ fr.pc = "start_135"
        /\ sessions' = e.sessions
        /\ heap' = e.heap
        /\ IF fr.op = "start"
           THEN Return(t, None)
           ELSE Goto(t, "record_event_141") /\ UNCHANGED <<hist, last>>
        /\ UNCHANGED <<ncalls, referenced>>

record_event_138(t, session_id, friction, hesitation, pace) ==
    /\ frame[t].pc = "idle"
    /\ ncalls < MaxCalls
    /\ ncalls' = ncalls + 1
    /\ frame' = [frame EXCEPT ![t] =
                    Enter(t, "record_event", session_id, friction, hesitation, pace,
                          IF Contains(sessions, session_id)
                          THEN "record_event_141" ELSE "start_134")]
    /\ referenced' = referenced \cup {session_id}
    /\ UNCHANGED <<sessions, heap, hist, last>>

\* a lookup that takes the accumulator created last, whatever its session_id
record_event_141_latest(t) ==
    LET fr == frame[t] IN
    /\ fr.pc = "record_event_141"
    /\ IF Contains(sessions, fr.session_id)
       THEN frame' = [frame EXCEPT ![t].state = Len(heap),
                                   ![t].pc = "record_111_load"]
       ELSE Goto(t, "KeyError")
    /\ UNCHANGED <<sessions, heap, ncalls, referenced, hist, last>>

\* state = self.sessions[session_id]; a missing key raises KeyError
record_event_141(t) ==
    LET fr == frame[t] IN
    /\ fr.pc = "record_event_141"
    /\ IF Contains(sessions, fr.session_id)
       THEN frame' = [frame EXCEPT ![t].state = sessions[fr.session_id],
                                   ![t].pc = "record_111_load"]
       ELSE Goto(t, "KeyError")
    /\ UNCHANGED <<sessions, heap, ncalls, referenced, hist, last>>

\* a record that waits for one engine-wide lock: it starts only when no other thread
\* is inside record
record_111_load_locked(t) ==
    LET fr == frame[t] IN
    /\ fr.pc = "record_111_load"
    /\ \A u \in Threads \ {t} :
           frame[u].pc \notin {"record_111_store", "record_114", "record_116",
                               "record_118"}
    /\ frame' = [frame EXCEPT ![t].loaded = heap[fr.state].event_count,
                              ![t].pc = "record_111_store"]
    /\ UNCHANGED <<sessions, heap, ncalls, referenced, hist, last>>

\* self.event_count += 1: the load
record_111_load(t) ==
    LET fr == frame[t] IN
    /\ fr.pc = "record_111_load"
    /\ frame' = [frame EXCEPT ![t].loaded = heap[fr.state].event_count,
                              ![t].pc = "record_111_store"]
    /\ UNCHANGED <<sessions, heap, ncalls, referenced, hist, last>>

\* self.event_count += 1: the store
record_111_store(t) ==
    LET fr == frame[t] IN
    /\ fr.pc = "record_111_store"
    /\ heap' = [heap EXCEPT ![fr.state] = StoreCount(@, fr.loaded)]
    /\ frame' = [frame EXCEPT ![t].loaded = 0, ![t].pc = AfterRecord(fr, "record_111")]
    /\ UNCHANGED <<sessions, ncalls, referenced, hist, last>>

record_114(t) ==
    LET fr == frame[t] IN
    /\ fr.pc = "record_114"
    /\ heap' = [heap EXCEPT ![fr.state] = AppendFriction(@, fr.friction)]
    /\ Goto(t, AfterRecord(fr, "record_114"))
    /\ UNCHANGED <<sessions, ncalls, referenced, hist, last>>

record_116(t) ==
    LET fr == frame[t] IN
    /\ fr.pc = "record_116"
    /\ heap' = [heap EXCEPT ![fr.state] = AppendHesitation(@, fr.hesitation)]
    /\ Goto(t, AfterRecord(fr, "record_116"))
    /\ UNCHANGED <<sessions, ncalls, referenced, hist, last>>

record_118(t) ==
    LET fr == frame[t] IN
    /\ fr.pc = "record_118"
    /\ heap' = [heap EXCEPT ![fr.state] = AppendPace(@, fr.pace)]
    /\ Goto(t, AfterRecord(fr, "record_118"))
    /\ UNCHANGED <<sessions, ncalls, referenced, hist, last>>

\* the entries of the summary dict are evaluated one after another
summary_122(t) ==
    LET fr == frame[t] IN
    /\ fr.pc = "summary_122"
    /\ frame' = [frame EXCEPT ![t].ret.events_count = summary(heap[fr.state]).events_count,
                              ![t].pc = "summary_123"]
    /\ UNCHANGED <<sessions, heap, ncalls, referenced, hist, last>>

summary_123(t) ==
    LET fr == frame[t] IN
    /\ fr.pc = "summary_123"
    /\ frame' = [frame EXCEPT
                    ![t].ret.average_friction = summary(heap[fr.state]).average_friction,
                    ![t].pc = "summary_124"]
    /\ UNCHANGED <<sessions, heap, ncalls, referenced, hist, last>>

summary_124(t) ==
    LET fr == frame[t] IN
    /\ fr.pc = "summary_124"
    /\ frame' = [frame EXCEPT
                    ![t].ret.average_hesitation = summary(heap[fr.state]).average_hesitation,
                    ![t].pc = "summary_125"]
    /\ UNCHANGED <<sessions, heap, ncalls, referenced, hist, last>>

\* the last entry, and the return of the dict to the caller of record_event or end
summary_125(t) ==
    LET fr == frame[t] IN
    /\ fr.pc = "summary_125"
    /\ Return(t, Some([fr.ret EXCEPT
                          !.average_pace = summary(heap[fr.state]).average_pace]))
    /\ UNCHANGED <<sessions, heap, ncalls, referenced>>

end_147(t, session_id) ==
    /\ frame[t].pc = "idle"
    /\ ncalls < MaxCalls
    /\ ncalls' = ncalls + 1
    /\ IF Contains(sessions, session_id)
       THEN /\ frame' = [frame EXCEPT ![t] =
                            Enter(t, "end", session_id, None, None, None, "end_149")]
            /\ last' = last
       ELSE /\ frame' = frame
            /\ last' = Completed("end", session_id, None, None, None, None)
    /\ UNCHANGED <<sessions, heap, referenced, hist>>

\* self.sessions[session_id].summary(): the lookup
end_149(t) ==
    LET fr == frame[t] IN
    /\ fr.pc = "end_149"
    /\ IF Contains(sessions, fr.session_id)
       THEN frame' = [frame EXCEPT ![t].state = sessions[fr.session_id],
                                   ![t].pc = "summary_122"]
       ELSE Goto(t, "KeyError")
    /\ UNCHANGED <<sessions, heap, ncalls, referenced, hist, last>>

NextThreads ==
    \E t \in Threads :
        \/ \E s \in SessionIds : start_134(t, s)
        \/ start_134_nested(t)
        \/ start_135(t)
        \/ \E s \in SessionIds, e \in ThreadEvents(t) :
              record_event_138(t, s, e[1], e[2], e[3])
        \/ record_event_141(t)
        \/ record_111_load(t)
        \/ record_111_store(t)
        \/ record_114(t)
        \/ record_116(t)
        \/ record_118(t)
        \/ summary_122(t)
        \/ summary_123(t)
        \/ summary_124(t)
        \/ summary_125(t)
        \/ \E s \in SessionIds : end_147(t, s)
        \/ end_149(t)

SpecThreads == Init /\ [][NextThreads]_vars

\* ------------------------- SpecLoop: handlers as tasks of one event loop
\* Each thread is a task of the event loop, running the one engine call of a handler
\* whose request has passed validation. The loop runs one task at a time and leaves
\* it for another only where the task awaits.

\* a handler that awaits between the membership test and the insertion, and between
\* the load and the store of the count
SuspensionPoints_inside_engine == {"start_135", "record_111_store"}

\* the statements at which a handler awaits: the handlers and the engine hold no await
SuspensionPoints == {}

\* the event loop can run task t: every other task is outside a call or suspended
Scheduled(t) ==
    \A u \in Threads \ {t} : frame[u].pc \in {"idle"} \cup SuspensionPoints

NextLoop ==
    \E t \in Threads :
        \/ \E s \in SessionIds : Scheduled(t) /\ start_134(t, s)
        \/ Scheduled(t) /\ start_134_nested(t)
        \/ Scheduled(t) /\ start_135(t)
        \/ \E s \in SessionIds, e \in ThreadEvents(t) :
              Scheduled(t) /\ record_event_138(t, s, e[1], e[2], e[3])
        \/ Scheduled(t) /\ record_event_141(t)
        \/ Scheduled(t) /\ record_111_load(t)
        \/ Scheduled(t) /\ record_111_store(t)
        \/ Scheduled(t) /\ record_114(t)
        \/ Scheduled(t) /\ record_116(t)
        \/ Scheduled(t) /\ record_118(t)
        \/ Scheduled(t) /\ summary_122(t)
        \/ Scheduled(t) /\ summary_123(t)
        \/ Scheduled(t) /\ summary_124(t)
        \/ Scheduled(t) /\ summary_125(t)
        \/ \E s \in SessionIds : Scheduled(t) /\ end_147(t, s)
        \/ Scheduled(t) /\ end_149(t)

SpecLoop == Init /\ [][NextLoop]_vars

\* ---------------------------------- SpecHttp: the handlers of the /v1 routes
\* The handlers are coroutines that never await: the event loop runs each from its
\* first statement to its return, so a handler is one step. A payload is the request
\* body after pydantic has typed it. The meta entry of a response (version and wall
\* clock) and the log lines are left out.

\* a float: a finite number, nan, or an infinity with its sign
Fin(n) == <<"fin", n>>
NaN == <<"nan", 0>>
Infinity == <<"inf", 1>>

\* a sign test that takes every number for non-negative
LessThanZero_never(x) == FALSE

\* x < 0 on floats: false for nan
LessThanZero(x) == x[1] # "nan" /\ x[2] < 0

\* math.isnan(x) or math.isinf(x)
NotFinite(x) == x[1] \in {"nan", "inf"}

\* the strings made of whitespace alone among those the payloads carry
Blank == {"", " "}

\* str.strip(): on the strings the payloads carry, only the blank ones change
strip(str) == IF str \in Blank THEN "" ELSE str

validate_session_id(session_id) ==
    IF strip(session_id) = ""
    THEN Some("Invalid session_id: must be a non-empty string.")
    ELSE None

validate_event_type(event_type) ==
    IF strip(event_type) = ""
    THEN Some("Invalid event_type: must be a non-empty string.")
    ELSE None

validate_timestamp(timestamp) ==
    IF LessThanZero(timestamp) THEN Some("Invalid timestamp: must be >= 0.")
    ELSE IF NotFinite(timestamp) THEN Some("Invalid timestamp: must be a finite number.")
    ELSE None

\* a validate_signal without the test for negative values
validate_signal_unsigned(name, value) ==
    IF value = None THEN None
    ELSE IF NotFinite(value[1]) THEN Some(<<"Invalid", name, "must be a finite number.">>)
    ELSE None

\* the message is kept as its three parts
validate_signal(name, value) ==
    IF value = None THEN None
    ELSE IF LessThanZero(value[1]) THEN Some(<<"Invalid", name, "must be >= 0.">>)
    ELSE IF NotFinite(value[1]) THEN Some(<<"Invalid", name, "must be a finite number.">>)
    ELSE None

\* a or b on two results of validation
Or(a, b) == IF a # None THEN a ELSE b

\* the validation chain of the event handler
validate_event(payload) ==
    Or(validate_session_id(payload.session_id),
    Or(validate_event_type(payload.event_type),
    Or(validate_timestamp(payload.timestamp),
    Or(validate_signal("friction", payload.friction),
    Or(validate_signal("hesitation", payload.hesitation),
       validate_signal("pace", payload.pace))))))

EmptyDict == [k \in {} |-> None]

\* the response envelope; data or {}
trf(ok, session_id, event, data, msg) ==
    [ok |-> ok, session_id |-> session_id, event |-> event,
     data |-> IF data # None THEN data[1] ELSE EmptyDict, msg |-> msg]

\* a float of a payload as the number the engine computes with
Number(x) == IF x[1] = "fin" THEN x[2] ELSE x

\* an optional float of a payload as the engine receives it
Argument(value) == IF value = None THEN None ELSE Some(Number(value[1]))

\* the floats that validation has to refuse
BadNumbers == {Fin(-1), NaN, Infinity}

PayloadIds == SessionIds \cup Blank

StartSessionRequests == {[session_id |-> s] : s \in PayloadIds}

EndSessionRequests ==
    {[session_id |-> s, include_summary |-> b] : s \in PayloadIds, b \in BOOLEAN}

\* an event request that passes validation
WellFormed(session_id, friction, hesitation, pace) ==
    [session_id |-> session_id, event_type |-> "click", timestamp |-> Fin(0),
     friction |-> friction, hesitation |-> hesitation, pace |-> pace]

\* the signals of the well-formed event requests: none, friction alone, all three
RequestSignals ==
    {<<None, None, None>>, <<Some(Fin(1)), None, None>>,
     <<Some(Fin(0)), Some(Fin(1)), Some(Fin(1))>>}

\* payload with one of its fields replaced by a value validation has to refuse
Defects(payload) ==
    {[payload EXCEPT !.session_id = b] : b \in Blank}
    \cup {[payload EXCEPT !.event_type = ""]}
    \cup {[payload EXCEPT !.timestamp = x] : x \in BadNumbers}
    \cup {[payload EXCEPT !.friction = Some(x)] : x \in BadNumbers}
    \cup {[payload EXCEPT !.hesitation = Some(x)] : x \in BadNumbers}
    \cup {[payload EXCEPT !.pace = Some(x)] : x \in BadNumbers}

EventRequests ==
    {WellFormed(s, e[1], e[2], e[3]) : s \in SessionIds, e \in RequestSignals}
    \cup UNION {Defects(WellFormed(s, Some(Fin(1)), None, None)) : s \in SessionIds}

\* the handler completed last, with its request and its response
Handled(op, payload, response) == [op |-> op, request |-> payload, response |-> response]

\* POST /v1/start
start_session(payload) ==
    LET err == validate_session_id(payload.session_id)
        e == start(sessions, heap, payload.session_id)
    IN  IF err # None
        THEN /\ last' = Handled("start_session", payload,
                                trf(FALSE, None, None, None, err))
             /\ UNCHANGED <<sessions, heap, frame, ncalls, referenced, hist>>
        ELSE /\ sessions' = e.sessions
             /\ heap' = e.heap
             /\ referenced' = referenced \cup {payload.session_id}
             /\ last' = Handled("start_session", payload,
                                trf(TRUE, Some(payload.session_id),
                                    Some("session_started"),
                                    Some([user_id |-> None]), None))
             /\ UNCHANGED <<frame, ncalls, hist>>

\* POST /v1/event
record_event_v1(payload) ==
    LET err == validate_event(payload)
        friction == Argument(payload.friction)
        hesitation == Argument(payload.hesitation)
        pace == Argument(payload.pace)
        e == record_event(sessions, heap, payload.session_id, friction, hesitation,
                          pace)
    IN  /\ Recorded(SessionIds) < MaxEvents
        /\ ValuesRecorded(SessionIds)
               + Present(payload.friction, payload.hesitation, payload.pace)
                   <= MaxValues
        /\ IF err # None
           THEN /\ last' = Handled("record_event_v1", payload,
                                   trf(FALSE, Some(payload.session_id),
                                       Some(payload.event_type), None, err))
                /\ UNCHANGED <<sessions, heap, frame, ncalls, referenced, hist>>
           ELSE /\ sessions' = e.sessions
                /\ heap' = e.heap
                /\ referenced' = referenced \cup {payload.session_id}
                /\ hist' = [hist EXCEPT ![payload.session_id] =
                               Append(@, Event(friction, hesitation, pace, e.ret))]
                /\ last' = Handled("record_event_v1", payload,
                                   trf(TRUE, Some(payload.session_id),
                                       Some(payload.event_type), Some(e.ret), None))
                /\ UNCHANGED <<frame, ncalls>>

\* an end handler that does not test the engine's result and reports success
end_session_unchecked(payload) ==
    LET err == validate_session_id(payload.session_id)
        e == end(sessions, heap, payload.session_id)
    IN  IF err # None
        THEN /\ last' = Handled("end_session", payload,
                                trf(FALSE, None, None, None, err))
             /\ UNCHANGED <<sessions, heap, frame, ncalls, referenced, hist>>
        ELSE /\ sessions' = e.sessions
             /\ heap' = e.heap
             /\ last' = Handled("end_session", payload,
                    IF ~payload.include_summary
                    THEN trf(TRUE, Some(payload.session_id), Some("session_ended"),
                             None, None)
                    ELSE trf(TRUE, Some(payload.session_id), Some("session_ended"),
                             e.ret, None))
             /\ UNCHANGED <<frame, ncalls, referenced, hist>>

\* POST /v1/end
end_session(payload) ==
    LET err == validate_session_id(payload.session_id)
        e == end(sessions, heap, payload.session_id)
    IN  IF err # None
        THEN /\ last' = Handled("end_session", payload,
                                trf(FALSE, None, None, None, err))
             /\ UNCHANGED <<sessions, heap, frame, ncalls, referenced, hist>>
        ELSE /\ sessions' = e.sessions
             /\ heap' = e.heap
             /\ last' = Handled("end_session", payload,
                    IF e.ret = None
                    THEN trf(FALSE, Some(payload.session_id), None, None,
                             Some("Session not found."))
                    ELSE IF ~payload.include_summary
                    THEN trf(TRUE, Some(payload.session_id), Some("session_ended"),
                             None, None)
                    ELSE trf(TRUE, Some(payload.session_id), Some("session_ended"),
                             e.ret, None))
             /\ UNCHANGED <<frame, ncalls, referenced, hist>>

NextHttp ==
    \/ \E payload \in StartSessionRequests : start_session(payload)
    \/ \E payload \in EventRequests : record_event_v1(payload)
    \/ \E payload \in EndSessionRequests : end_session(payload)

SpecHttp == Init /\ [][NextHttp]_vars

\* ================================================================ claims
\* no thread is inside an engine call
Quiescent == \A t \in Threads : frame[t].pc = "idle"

\* every engine call issued so far is a completed record_event on session s
OnlyRecordEventsOn(s) == Quiescent /\ ncalls >= 1 /\ ncalls = Len(hist[s])

\* the values of one signal over a sequence of events, in order, absent ones left out
RECURSIVE Supplied(_, _)
Supplied(events, signal) ==
    IF events = <<>> THEN <<>>
    ELSE (IF events[1][signal] # None THEN <<events[1][signal][1]>> ELSE <<>>)
             \o Supplied(Tail(events), signal)

\* seq holds each of its values once
Distinct(seq) == \A i, j \in DOMAIN seq : seq[i] = seq[j] => i = j

\* the values of seq as a set
Range(seq) == {seq[i] : i \in DOMAIN seq}

\* C1: after M concurrent record_event calls on one session_id, each with a distinct
\* non-null friction, the session has event_count = M and friction_values holds
\* exactly those M values: no update is lost.
C1_NoLostUpdate ==
    \A s \in SessionIds :
        LET given == Supplied(hist[s], "friction") IN
        (OnlyRecordEventsOn(s) /\ Len(given) = Len(hist[s]) /\ Distinct(given)) =>
            /\ Contains(sessions, s)
            /\ heap[sessions[s]].event_count = Len(hist[s])
            /\ Len(heap[sessions[s]].friction_values) = Len(given)
            /\ Range(heap[sessions[s]].friction_values) = Range(given)

\* C2: at most one accumulator is ever installed in the registry for a session_id:
\* no call replaces an accumulator another call has installed.
C2_OneAccumulatorPerId ==
    \A i, j \in DOMAIN heap : heap[i].session_id = heap[j].session_id => i = j

\* the record_event calls issued on session s so far: completed, then in progress
IssuedOn(s) ==
    LET active == {t \in Threads : frame[t].op = "record_event" /\ frame[t].session_id = s}
        flight(t) == <<Event(frame[t].friction, frame[t].hesitation, frame[t].pace, None)>>
    IN  hist[s] \o (IF 1 \in active THEN flight(1) ELSE <<>>)
                \o (IF 2 \in active THEN flight(2) ELSE <<>>)

\* the averages of sum are those of the events of `events` at the indices I
AveragesOver(sum, events, I) ==
    LET picked == [i \in 1..Len(events) |-> i \in I]
        vals(signal) == Supplied(SelectSeq([i \in 1..Len(events) |->
                                     [events[i] EXCEPT !.ret = picked[i]]],
                                  LAMBDA e : e.ret), signal)
        is(avg, v) == IF v = <<>> THEN avg = None
                      ELSE avg # None /\ avg[1] * Len(v) = Sum(v) * avg[2]
    IN  /\ is(sum.average_friction, vals("friction"))
        /\ is(sum.average_hesitation, vals("hesitation"))
        /\ is(sum.average_pace, vals("pace"))

\* sum describes a state of session s in which a whole number of events is applied
WholeEvents(sum, s) ==
    \E I \in SUBSET (1..Len(IssuedOn(s))) :
        sum.events_count = Cardinality(I) /\ AveragesOver(sum, IssuedOn(s), I)

\* C3: every summary returned by record_event or end describes a state in which a
\* whole number of events is fully applied, and the M summaries of M concurrent
\* record_event calls on a fresh session carry the events_count values 1..M, each once.
C3_RecordIsAtomic ==
    /\ (last.op \in {"record_event", "end"} /\ last.ret # None) =>
           WholeEvents(last.ret[1], last.session_id)
    /\ \A s \in SessionIds :
           OnlyRecordEventsOn(s) =>
               {hist[s][i].ret.events_count : i \in DOMAIN hist[s]} = 1..Len(hist[s])

\* --------------------------------------------------- claims checked under Spec
\* every summary a call has returned, with the number of events recorded on its
\* session up to that call: those of record_event, and that of an end completed last
Returned ==
    UNION {{[session_id |-> s, upto |-> i, sum |-> hist[s][i].ret] : i \in DOMAIN hist[s]}
               : s \in SessionIds}
    \cup
    (IF last.op = "end" /\ last.ret # None
     THEN {[session_id |-> last.session_id, upto |-> Len(hist[last.session_id]),
            sum |-> last.ret[1]]}
     ELSE {})

SignalNames == {"friction", "hesitation", "pace"}

AverageOf(sum, signal) ==
    CASE signal = "friction" -> sum.average_friction
      [] signal = "hesitation" -> sum.average_hesitation
      [] signal = "pace" -> sum.average_pace

\* the values of a signal recorded on the session of r up to the call of r
RecordedUpTo(r, signal) == Supplied(SubSeq(hist[r.session_id], 1, r.upto), signal)

AllNull(e) == e.friction = None /\ e.hesitation = None /\ e.pace = None

\* C4: the summary returned by the N-th record_event on a fresh session, and by an
\* end that follows it, has events_count = N, whatever signals were null.
C4_CountsEveryEvent == \A r \in Returned : r.sum.events_count = r.upto

C4_Witness ==
    \E s \in SessionIds :
        /\ Len(hist[s]) = 2 /\ AllNull(hist[s][1]) /\ ~AllNull(hist[s][2])
        /\ last.op = "end" /\ last.session_id = s /\ last.ret # None
        /\ last.ret[1].events_count = 2

\* C5: each average of a summary is the sum of the non-null values recorded for that
\* signal divided by their number.
C5_UnweightedMean ==
    \A r \in Returned : \A signal \in SignalNames :
        LET v == RecordedUpTo(r, signal)
            avg == AverageOf(r.sum, signal)
        IN  v # <<>> => /\ avg # None
                        /\ avg[2] > 0
                        /\ avg[1] * Len(v) = Sum(v) * avg[2]

C5_Witness ==
    \E s \in SessionIds :
        /\ Len(hist[s]) = 2
        /\ Supplied(hist[s], "friction") = <<1, 0>>
        /\ Supplied(hist[s], "hesitation") = <<1>>
        /\ hist[s][2].ret.average_friction = <<1, 2>>
        /\ hist[s][2].ret.average_hesitation = <<1, 1>>

\* C6: an average is the no-data marker None exactly when no non-null value of its
\* signal has been recorded, and a number (0 included) otherwise.
C6_NoDataMarker ==
    \A r \in Returned : \A signal \in SignalNames :
        LET v == RecordedUpTo(r, signal)
            avg == AverageOf(r.sum, signal)
        IN  /\ (avg = None) <=> (v = <<>>)
            /\ avg # None => Len(avg) = 2

C6_Witness ==
    /\ last.op = "end" /\ last.ret # None
    /\ last.ret[1].events_count = 2
    /\ last.ret[1].average_pace = None
    /\ last.ret[1].average_friction = <<0, 1>>

\* the registry is the same before and after the step
RegistryUnchanged == sessions' = sessions /\ heap' = heap

\* C7: end on a session_id never passed to start or record_event returns None
\* (NotFound) and leaves the registry unchanged, so that a second end on the same
\* id returns None again.
C7_EndUnknown ==
    [][(last'.op = "end" /\ last'.session_id \notin referenced) =>
           /\ last'.ret = None
           /\ RegistryUnchanged
           /\ end(sessions', heap', last'.session_id).ret = None]_vars

C7_Witness ==
    /\ last.op = "end" /\ last.ret = None /\ last.session_id \notin referenced
    /\ \E s \in SessionIds : Len(hist[s]) = 2

\* C8: end on an existing session leaves the whole registry unchanged, so that a
\* second end on it returns the same summary.
C8_EndReadsOnly ==
    [][(last'.op = "end" /\ Contains(sessions, last'.session_id)) =>
           /\ RegistryUnchanged
           /\ last'.ret # None
           /\ end(sessions', heap', last'.session_id).ret = last'.ret]_vars

C8_Witness ==
    /\ last.op = "end" /\ last.ret # None
    /\ \A s \in SessionIds : Contains(sessions, s) /\ hist[s] # <<>>

\* C9: start on a session_id that exists changes neither its event_count nor its
\* value sequences, at any point of the session's history.
C9_StartExistingNoOp ==
    [][(last'.op = "start" /\ Contains(sessions, last'.session_id)) =>
           RegistryUnchanged]_vars

C9_Witness ==
    /\ last.op = "start"
    /\ Len(hist[last.session_id]) = 2
    /\ heap[sessions[last.session_id]].event_count = 2
    /\ Len(heap[sessions[last.session_id]].friction_values) = 2

\* the sequence record_event leaves for a signal on a session it created
Only(signal) == IF signal # None THEN <<signal[1]>> ELSE <<>>

\* C10: record_event on an unknown session_id leaves the state and returns the
\* summary of start followed by the same record_event: events_count = 1 and each
\* sequence holding exactly the supplied non-null value.
C10_ImplicitCreate ==
    [][(last'.op = "record_event" /\ ~Contains(sessions, last'.session_id)) =>
           LET sid == last'.session_id
               e0 == start(sessions, heap, sid)
               e == record_event(e0.sessions, e0.heap, sid, last'.friction,
                                 last'.hesitation, last'.pace)
               st == heap'[sessions'[sid]]
           IN  /\ sessions' = e.sessions /\ heap' = e.heap
               /\ last'.ret = Some(e.ret)
               /\ Contains(sessions', sid)
               /\ st.event_count = 1 /\ e.ret.events_count = 1
               /\ st.friction_values = Only(last'.friction)
               /\ st.hesitation_values = Only(last'.hesitation)
               /\ st.pace_values = Only(last'.pace)]_vars

C10_Witness ==
    /\ last.op = "record_event"
    /\ Len(hist[last.session_id]) = 1
    /\ last.friction = Some(1) /\ last.hesitation = None /\ last.pace = Some(0)
    /\ last.ret = Some([events_count |-> 1, average_friction |-> <<1, 1>>,
                        average_hesitation |-> None, average_pace |-> <<0, 1>>])
    /\ \E s \in SessionIds : s # last.session_id /\ hist[s] # <<>>

\* ------------------------------------------------------------ C11 .. C20
\* the accumulator the registry holds for session s
StateOf(s) == heap[sessions[s]]

\* C11: in every reachable state, the states inside a record_event that concurrent
\* calls can observe included, a session's event_count is at least the length of
\* each of its three value sequences.
C11_CountBoundsLengths ==
    \A s \in SessionIds :
        Contains(sessions, s) =>
            /\ StateOf(s).event_count >= Len(StateOf(s).friction_values)
            /\ StateOf(s).event_count >= Len(StateOf(s).hesitation_values)
            /\ StateOf(s).event_count >= Len(StateOf(s).pace_values)

\* the record_event completed last on session s
LastEvent(s) == hist[s][Len(hist[s])]

\* C12: an end with no record_event on the session since the latest one returns a
\* summary equal, in each of its four fields, to the summary that record_event returned.
C12_EndRepeatsLastSummary ==
    (last.op = "end" /\ hist[last.session_id] # <<>>) =>
        /\ last.ret # None
        /\ last.ret[1].events_count = LastEvent(last.session_id).ret.events_count
        /\ last.ret[1].average_friction = LastEvent(last.session_id).ret.average_friction
        /\ last.ret[1].average_hesitation
               = LastEvent(last.session_id).ret.average_hesitation
        /\ last.ret[1].average_pace = LastEvent(last.session_id).ret.average_pace

\* an end on a session with two recorded events, one of them carrying signals
C12_Witness ==
    /\ last.op = "end"
    /\ Len(hist[last.session_id]) = 2
    /\ last.ret = Some(LastEvent(last.session_id).ret)
    /\ last.ret[1].events_count = 2
    /\ last.ret[1].average_friction # None
    /\ last.ret[1].average_pace = None

\* C13: a session_id in the registry is in the registry after every step, whichever
\* call the step is, and an end on it returns a summary, never None (NotFound).
C13_RegistryOnlyGrows ==
    [][/\ \A s \in SessionIds : Contains(sessions, s) => Contains(sessions', s)
       /\ (last'.op = "end" /\ Contains(sessions, last'.session_id)) =>
              last'.ret # None]_vars

\* an end has returned the summary of a session, and both sessions are still registered
C13_Witness ==
    /\ last.op = "end"
    /\ last.ret # None
    /\ \A s \in SessionIds : Contains(sessions, s)
    /\ hist[last.session_id] # <<>>

\* avg is the exact mean of the values v, the no-data marker when there are none
IsMeanOf(avg, v) ==
    IF v = <<>> THEN avg = None ELSE avg # None /\ avg[1] * Len(v) = Sum(v) * avg[2]

ProgramPoints ==
    {"idle", "start_134", "start_135", "record_event_141", "record_111_load",
     "record_111_store", "record_114", "record_116", "record_118", "summary_122",
     "summary_123", "summary_124", "summary_125", "end_149"}

\* the next statement of the call thread t is in
Proceed(t) ==
    \/ start_134_nested(t)
    \/ start_135(t)
    \/ record_event_141(t)
    \/ record_111_load(t)
    \/ record_111_store(t)
    \/ record_114(t)
    \/ record_116(t)
    \/ record_118(t)
    \/ summary_122(t)
    \/ summary_123(t)
    \/ summary_124(t)
    \/ summary_125(t)
    \/ end_149(t)

\* C15: under every interleaving of start, record_event and end calls, no call raises
\* (the lookups after the membership tests never miss), a call in progress is always
\* at a statement of the engine, a completed record_event has returned a summary, and
\* None is returned by start (which returns nothing) and by end (NotFound) alone.
C15_EngineNeverFails ==
    /\ \A t \in Threads :
           /\ frame[t].pc # "KeyError"
           /\ frame[t].pc \in ProgramPoints
    /\ last.op = "record_event" => last.ret # None
    /\ \A s \in SessionIds : \A i \in DOMAIN hist[s] : hist[s][i].ret.events_count >= 1

\* two record_event calls on one unknown session have raced through the implicit
\* start, each installing an accumulator, and both have returned
C15_Witness ==
    /\ Quiescent
    /\ last.op = "record_event"
    /\ Len(hist[last.session_id]) = 2
    /\ Len(heap) = 2
    /\ heap[1].session_id = heap[2].session_id

\* thread t is inside a call on a session other than the one thread u is inside
OnOtherSessions(t, u) ==
    /\ frame[t].pc # "idle"
    /\ frame[u].pc # "idle"
    /\ frame[t].session_id # frame[u].session_id

\* C17: calls on different session_ids never block each other: while a thread is
\* anywhere inside a call on session B, a call on another session A has its next
\* statement enabled, and an idle thread can enter start, record_event and end on A
\* (as long as the model issues calls at all).
C17_SessionsNeverBlock ==
    \A t \in Threads : \A u \in Threads \ {t} :
        /\ OnOtherSessions(t, u) => ENABLED Proceed(t)
        /\ (frame[t].pc = "idle" /\ frame[u].pc # "idle" /\ ncalls < MaxCalls) =>
               \A s \in SessionIds \ {frame[u].session_id} :
                   /\ ENABLED start_134(t, s)
                   /\ ENABLED end_147(t, s)
                   /\ \A e \in ThreadEvents(t) :
                          ENABLED record_event_138(t, s, e[1], e[2], e[3])

\* both threads are in the middle of record, on different sessions
C17_Witness ==
    /\ OnOtherSessions(1, 2)
    /\ frame[1].pc = "record_111_load"
    /\ frame[2].pc \in {"record_111_store", "record_114"}

\* the accumulator of session s before its key exists is the one start would create
StateBefore(s) == IF Contains(sessions, s) THEN StateOf(s) ELSE HaloSessionState(s)

\* C18: record_event appends to a sequence if and only if its signal is non-null: a
\* null signal leaves the sequence as it was (no zero is stored), a non-null one makes
\* it the old sequence followed by the supplied value.
C18_AppendsIffPresent ==
    [][last'.op = "record_event" =>
           LET sid == last'.session_id
               old == StateBefore(sid)
               new == heap'[sessions'[sid]]
           IN  /\ new.friction_values =
                      IF last'.friction = None THEN old.friction_values
                      ELSE Append(old.friction_values, last'.friction[1])
               /\ new.hesitation_values =
                      IF last'.hesitation = None THEN old.hesitation_values
                      ELSE Append(old.hesitation_values, last'.hesitation[1])
               /\ new.pace_values =
                      IF last'.pace = None THEN old.pace_values
                      ELSE Append(old.pace_values, last'.pace[1])]_vars

\* the second record_event of a session carried friction 0 alone, after one that
\* carried friction 1 and pace: friction_values grew at its end, the others did not
C18_Witness ==
    /\ last.op = "record_event"
    /\ last.friction = Some(0)
    /\ last.hesitation = None
    /\ last.pace = None
    /\ StateOf(last.session_id).event_count = 2
    /\ StateOf(last.session_id).friction_values = <<1, 0>>
    /\ StateOf(last.session_id).hesitation_values = <<>>
    /\ Len(StateOf(last.session_id).pace_values) = 1

\* seq is an initial segment of longer
IsPrefix(seq, longer) ==
    Len(seq) <= Len(longer) /\ SubSeq(longer, 1, Len(seq)) = seq

\* C19: across every step, a session's event_count never decreases and grows by at
\* most 1, each of its value sequences is a prefix of what it is after the step, and
\* a step that completes a start or an end changes none of them.
C19_OnlyGrows ==
    [][\A s \in SessionIds :
           Contains(sessions, s) =>
               LET old == StateOf(s)
                   new == heap'[sessions'[s]]
               IN  /\ new.event_count \in {old.event_count, old.event_count + 1}
                   /\ IsPrefix(old.friction_values, new.friction_values)
                   /\ IsPrefix(old.hesitation_values, new.hesitation_values)
                   /\ IsPrefix(old.pace_values, new.pace_values)
                   /\ (last' # last /\ last'.op \in {"start", "end"}) => new = old]_vars

\* C20: start on an unknown session_id registers an accumulator with no event and no
\* value, and an end right after a start on a session with no record_event returns a
\* summary, not None (NotFound), with events_count 0 and the no-data marker for each
\* of the three averages.
C20_StartCreatesEmpty ==
    [][/\ (last'.op = "start" /\ ~Contains(sessions, last'.session_id)) =>
              /\ Contains(sessions', last'.session_id)
              /\ heap'[sessions'[last'.session_id]] =
                     [session_id |-> last'.session_id, event_count |-> 0,
                      friction_values |-> <<>>, hesitation_values |-> <<>>,
                      pace_values |-> <<>>]
       /\ (/\ last.op = "start"
           /\ last'.op = "end"
           /\ last'.session_id = last.session_id
           /\ hist[last.session_id] = <<>>) =>
              last'.ret = Some([events_count |-> 0, average_friction |-> None,
                                average_hesitation |-> None, average_pace |-> None])]_vars

\* end has returned the empty summary of a session that was started and never
\* recorded on, while the other session holds events
C20_Witness ==
    /\ last.op = "end"
    /\ last.session_id \in referenced
    /\ hist[last.session_id] = <<>>
    /\ last.ret # None
    /\ last.ret[1].events_count = 0
    /\ \E s \in SessionIds : hist[s] # <<>>

\* a number that is negative or not finite
BadNumber(x) == x[1] # "fin" \/ x[2] < 0

\* the request fails validation, by the conditions on its fields: a blank session_id
\* on any route; on the event route an empty event_type, a bad timestamp or a bad
\* signal
FailsValidation(op, request) ==
    \/ request.session_id \in Blank
    \/ /\ op = "record_event_v1"
       /\ \/ request.event_type = ""
          \/ BadNumber(request.timestamp)
          \/ \E value \in {request.friction, request.hesitation, request.pace} :
                 value # None /\ BadNumber(value[1])

\* C16: a request that fails validation is answered with ok = false and does not
\* reach the engine: registry and accumulators are as before, so an invalid event for
\* an unknown, valid session_id does not create the session.
C16_InvalidNeverReachesEngine ==
    [][FailsValidation(last'.op, last'.request) =>
           /\ last'.response.ok = FALSE
           /\ last'.response.msg # None
           /\ RegistryUnchanged
           /\ hist' = hist
           /\ referenced' = referenced]_vars

\* an event with a valid session_id that is not registered and a friction that is not
\* a number has been refused, while the other session holds a recorded event
C16_Witness ==
    /\ last.op = "record_event_v1"
    /\ last.request.friction = Some(NaN)
    /\ last.request.session_id \in SessionIds
    /\ ~Contains(sessions, last.request.session_id)
    /\ last.response.ok = FALSE
    /\ \E s \in SessionIds : hist[s] # <<>>

\* ------------------------------------------------------------ C21 .. C25
\* C21: an end request for a valid session_id that is not registered is answered with
\* ok = false and the message "Session not found."; the step changes neither registry
\* nor accumulators, so every later request finds the state the failed end found, and
\* a start of the same id after it creates the session as it would have before.
C21_NotFoundIsNotFatal ==
    [][(/\ last'.op = "end_session"
        /\ last'.request.session_id \in SessionIds
        /\ ~Contains(sessions, last'.request.session_id)) =>
           LET sid == last'.request.session_id
               later == start(sessions', heap', sid)
           IN  /\ last'.response.ok = FALSE
               /\ last'.response.msg = Some("Session not found.")
               /\ last'.response.session_id = Some(sid)
               /\ last'.response.data = EmptyDict
               /\ RegistryUnchanged
               /\ hist' = hist
               /\ referenced' = referenced
               /\ later = start(sessions, heap, sid)
               /\ Contains(later.sessions, sid)]_vars

\* an end on a session_id that is not registered has been refused while the other
\* session is registered and holds a recorded event
C21_Witness ==
    /\ last.op = "end_session"
    /\ last.request.session_id \in SessionIds
    /\ ~Contains(sessions, last.request.session_id)
    /\ last.response.ok = FALSE
    /\ last.response.msg = Some("Session not found.")
    /\ \E s \in SessionIds : hist[s] # <<>>

\* the values an accumulator stores, over its three sequences
StoredValues(st) ==
    Range(st.friction_values) \cup Range(st.hesitation_values) \cup Range(st.pace_values)

\* C22: whatever requests the handlers have served, every value stored in a session's
\* friction_values, hesitation_values or pace_values is a number >= 0: a finite float
\* is stored as its number, and no negative, nan or infinite signal has been appended.
C22_StoredValuesNonNegative ==
    \A i \in DOMAIN heap : \A v \in StoredValues(heap[i]) : v \in Nat

\* an event with pace -1 has been refused on a registered session that holds a
\* friction value and no pace value
C22_Witness ==
    /\ last.op = "record_event_v1"
    /\ last.request.pace = Some(Fin(-1))
    /\ last.response.ok = FALSE
    /\ Contains(sessions, last.request.session_id)
    /\ StateOf(last.request.session_id).friction_values # <<>>
    /\ StateOf(last.request.session_id).pace_values = <<>>

\* the step leaves session s as it is: its key, and behind it its accumulator
SessionUnchanged(s) ==
    /\ sessions'[s] = sessions[s]
    /\ Contains(sessions, s) => heap'[sessions[s]] = StateOf(s)

\* the step is a statement of a call on session s
StepOn(s) ==
    \E t \in Threads :
        /\ frame'[t] # frame[t]
        /\ s \in {frame[t].session_id, frame'[t].session_id}

\* C23: a step of start, record_event or end on a session leaves every other session
\* unchanged - its presence in the registry, its event_count and its three value
\* sequences - when calls run one after another and under every interleaving: a step
\* that changes session s is a statement of a call on s.
C23_OtherSessionsUnchanged ==
    [][\A s \in SessionIds : SessionUnchanged(s) \/ StepOn(s)]_vars

\* thread 1 has stored the count of an event on s1 while thread 2 is inside a
\* record_event on s2 that has stored its own
C23_Witness ==
    /\ frame[1].session_id = "s1"
    /\ frame[2].session_id = "s2"
    /\ frame[1].pc = "record_114"
    /\ frame[2].pc = "record_114"
    /\ StateOf("s1").event_count = 1
    /\ StateOf("s2").event_count = 1
    /\ StateOf("s2").friction_values = <<>>

RECURSIVE Replay(_, _)
\* the accumulator st after record has been applied for each of events, in order
Replay(st, events) ==
    IF events = <<>> THEN st
    ELSE Replay(record(st, events[1].friction, events[1].hesitation, events[1].pace),
                Tail(events))

\* the permutations of 1..n
Permutations(n) ==
    {p \in [1..n -> 1..n] : \A i, j \in 1..n : p[i] = p[j] => i = j}

\* C24: the summary of a session depends on the events recorded on it and not on
\* their order: recording the same events on a fresh accumulator in any permutation
\* yields the events_count and the three averages the session has.
C24_OrderIndependent ==
    \A s \in SessionIds :
        Contains(sessions, s) =>
            \A p \in Permutations(Len(hist[s])) :
                LET permuted == [i \in 1..Len(hist[s]) |-> hist[s][p[i]]]
                    sum == summary(Replay(HaloSessionState(s), permuted))
                IN  /\ sum.events_count = summary(StateOf(s)).events_count
                    /\ sum.average_friction = summary(StateOf(s)).average_friction
                    /\ sum.average_hesitation = summary(StateOf(s)).average_hesitation
                    /\ sum.average_pace = summary(StateOf(s)).average_pace

\* a session holds two events with different friction values, the second with a pace
\* the first lacks: the other order stores other sequences
C24_Witness ==
    \E s \in SessionIds :
        /\ Len(hist[s]) = 2
        /\ hist[s][1].friction = Some(1)
        /\ hist[s][2].friction = Some(0)
        /\ hist[s][1].pace = None
        /\ hist[s][2].pace # None
        /\ StateOf(s).friction_values = <<1, 0>>

\* C25: with the handlers scheduled cooperatively on one event loop, a handler's
\* engine call runs from its first statement to its return with no other task in
\* between, so every execution is a serial order of whole handler executions; at the
\* endpoints no update is lost (a session's event_count is the number of events
\* recorded on it, and the k-th of them returned events_count = k) and a session_id
\* is created exactly once (one accumulator was ever constructed for it).
C25_HandlersAreSerial ==
    /\ \A t \in Threads : \A u \in Threads \ {t} :
           frame[t].pc = "idle" \/ frame[u].pc = "idle"
    /\ \A i, j \in DOMAIN heap : heap[i].session_id = heap[j].session_id => i = j
    /\ \A s \in SessionIds :
           /\ \A k \in DOMAIN hist[s] : hist[s][k].ret.events_count = k
           /\ (Quiescent /\ Contains(sessions, s)) =>
                  /\ StateOf(s).event_count = Len(hist[s])
                  /\ StateOf(s).friction_values = Supplied(hist[s], "friction")

\* two tasks have each recorded an event with a friction value on one session that
\* neither had started: one accumulator, two events, both values
C25_Witness ==
    /\ Quiescent
    /\ \E s \in SessionIds :
           /\ Len(hist[s]) = 2
           /\ Len(heap) = 1
           /\ StateOf(s).event_count = 2
           /\ Range(StateOf(s).friction_values) = Threads

=============================================================================
